---- MODULE Spec2Model ----
(***************************************************************************)
(* Model of the residential-area inference of MovementAnalysis:            *)
(*   merge                (src/general_functions.h)  interval-list merge   *)
(*   Cell::getTimeSegments (src/cell.h)              dwell segmentation    *)
(*   User::findResidentialAreaByTopKCells (src/user.h)  area discovery     *)
(*                                                                         *)
(* A calendar time (struct tm) is represented by the number of seconds     *)
(* mktime yields for it; a TIMEPAIR is the tuple <<first, second>>.        *)
(* C++ indices are 0-based; a C++ index k addresses element k + 1 here.    *)
(***************************************************************************)
EXTENDS Integers, Sequences, FiniteSets, TLC

VARIABLES
    pc,          \* position of the running routine
    v1, v2,      \* merge: the two arguments
    mergeOut,    \* merge: the returned vector (<<>> until it returns)
    rowList,     \* Cell::rowList_ of the cell being segmented (timestamps)
    interval,    \* the gap threshold passed to getTimeSegments / discovery
    segmentList, \* getTimeSegments: the returned vector
    cellList,    \* User::cellList_: per cell, its time-sorted timestamps
    cellQueue,   \* User::cellQueue_: the pairs <<tag, numConnections>>
    areaMap,     \* findResidentialAreaByTopKCells: areaMap (tag -> area id)
    areaID,      \* findResidentialAreaByTopKCells: areaID (next id)
    areaList,    \* findResidentialAreaByTopKCells: areaList
    cellTag,     \* findResidentialAreaByTopKCells: cellTag of the last cell
    rowAreaID,   \* DataRow::areaId_ of the rows, per cell tag
    userRows,    \* User::rowList_: the whole log, rows <<time, position>>
    rowIdx,      \* findResidentialAreaBySpeed: the loop variable i
    lowIdx,      \* findResidentialAreaBySpeed: low
    highIdx,     \* findResidentialAreaBySpeed: high
    mapID,       \* findResidentialAreaBySpeed: mapID (next file number)
    jsonFiles,   \* the <<low, high>> arguments of the createJsonFile calls
    windows      \* the closed windows <<low, last index>>, in closing order

vars == <<pc, v1, v2, mergeOut, rowList, interval, segmentList,
          cellList, cellQueue, areaMap, areaID, areaList, cellTag, rowAreaID,
          userRows, rowIdx, lowIdx, highIdx, mapID, jsonFiles, windows>>

mergeVars == <<v1, v2, mergeOut>>
segVars == <<rowList, segmentList>>
userVars == <<cellList, cellQueue, areaMap, areaID, areaList, cellTag, rowAreaID>>
speedVars == <<userRows, rowIdx, lowIdx, highIdx, mapID, jsonFiles, windows>>

(***************************************************************************)
(* Bounds of the model.                                                    *)
(***************************************************************************)
MaxTime == 4      \* merge / segmentation inputs use the seconds 0..MaxTime
MaxLen == 3       \* longest interval list given to merge
MaxEvents == 4    \* most events of a segmented cell
MaxGap == 3       \* largest gap threshold given to getTimeSegments
MaxCells == 3     \* most distinct cell tags of the log
MaxCellEvents == 3 \* most events logged for one cell
MaxRows == 6      \* most rows of the log
MaxTick == 2      \* the log's timestamps are the multiples 0..MaxTick of Tick

(***************************************************************************)
(* general_functions.h                                                     *)
(***************************************************************************)
getTimeValue(datetime) == datetime

\* line 29: the next interval is taken from v1 only when it starts strictly
\* earlier; on equal starts it is taken from v2
takeFromV1(a, b) == getTimeValue(a[1]) < getTimeValue(b[1])

\* line 48: the interval is appended as a new one
startsAfterBackStrictless(merged, t) ==
    merged = <<>> \/ getTimeValue(merged[Len(merged)][2]) <= getTimeValue(t[1])

startsAfterBack(merged, t) ==
    merged = <<>> \/ getTimeValue(merged[Len(merged)][2]) < getTimeValue(t[1])

\* lines 48-53: append t, or extend the end of the last placed interval
placeNoExtend(merged, t) ==
    IF startsAfterBack(merged, t) THEN Append(merged, t) ELSE merged

place(merged, t) ==
    IF startsAfterBack(merged, t)
    THEN Append(merged, t)
    ELSE IF getTimeValue(merged[Len(merged)][2]) < getTimeValue(t[2])
         THEN [merged EXCEPT ![Len(merged)] = <<merged[Len(merged)][1], t[2]>>]
         ELSE merged

\* lines 28-46: <<which vector is the target, idxTarget, idx1, idx2>> after
\* the selection of one loop iteration
selectTarget(a, b, idx1, idx2) ==
    IF idx1 < Len(a) /\ idx2 < Len(b)
    THEN IF takeFromV1(a[idx1 + 1], b[idx2 + 1])
         THEN <<1, idx1, idx1 + 1, idx2>>
         ELSE <<2, idx2, idx1, idx2 + 1>>
    ELSE IF idx1 = Len(a)
         THEN <<2, idx2, idx1 + 1, idx2 + 1>>
         ELSE <<1, idx1, idx1 + 1, idx2 + 1>>

\* elements idx.. of v (v.begin() + idx, v.end()), empty when idx >= size
tailFrom(v, idx) == IF idx < Len(v) THEN SubSeq(v, idx + 1, Len(v)) ELSE <<>>

\* lines 27-57: the loop from the state (idx1, idx2, merged), then the two
\* tail insertions.  target->at(idxTarget) throws std::out_of_range when
\* idxTarget is not an index of the target.
RECURSIVE mergeLoop(_, _, _, _, _)
mergeLoop(a, b, idx1, idx2, merged) ==
    IF idx1 <= Len(a) /\ idx2 <= Len(b)
    THEN LET sel == selectTarget(a, b, idx1, idx2)
             target == IF sel[1] = 1 THEN a ELSE b
         IN  IF sel[2] >= Len(target)
             THEN [thrown |-> TRUE, merged |-> merged]
             ELSE mergeLoop(a, b, sel[3], sel[4], place(merged, target[sel[2] + 1]))
    ELSE [thrown |-> FALSE,
          merged |-> merged \o tailFrom(a, idx1) \o tailFrom(b, idx2)]

\* lines 23-60
merge(a, b) == mergeLoop(a, b, 0, 0, <<>>)

(***************************************************************************)
(* Interval lists: the precondition of merge.                              *)
(***************************************************************************)
Max(x, y) == IF x >= y THEN x ELSE y

\* sorted ascending by start, consecutive intervals neither overlap nor touch
SortedDisjoint(l) == \A k \in 1..(Len(l) - 1) : l[k][2] < l[k + 1][1]

WellFormed(l) == \A k \in 1..Len(l) : l[k][1] <= l[k][2]

Intervals == {<<s, e>> \in (0..MaxTime) \X (0..MaxTime) : s <= e}

IntervalLists ==
    {l \in UNION {[1..n -> Intervals] : n \in 0..MaxLen} : SortedDisjoint(l)}

(***************************************************************************)
(* cell.h                                                                  *)
(***************************************************************************)
\* lines 30-40; rows is rowList_, i and j are C++ indices
isWithinIntervalExits(rows, i, j, gap) ==
    \/ i < 0 \/ j < 0 \/ i >= Len(rows) \/ j >= Len(rows)
    \/ gap < 0

isWithinIntervalOfPrevious(rows, i, j, gap) ==
    getTimeValue(rows[j + 1]) - getTimeValue(rows[Max(j, 1)]) <= gap

isWithinIntervalStrict(rows, i, j, gap) ==
    getTimeValue(rows[j + 1]) - getTimeValue(rows[i + 1]) < gap

isWithinInterval(rows, i, j, gap) ==
    getTimeValue(rows[j + 1]) - getTimeValue(rows[i + 1]) <= gap

\* lines 47-55: the for loop from index i on
RECURSIVE segmentLoop(_, _, _, _, _, _, _)
segmentLoop(rows, gap, i, low, high, segFirst, segs) ==
    IF i < Len(rows)
    THEN IF ~isWithinInterval(rows, low, i, gap)
         THEN segmentLoop(rows, gap, i + 1, i, i, rows[i + 1],
                          Append(segs, <<segFirst, rows[high + 1]>>))
         ELSE segmentLoop(rows, gap, i + 1, low, i, segFirst, segs)
    ELSE Append(segs, <<segFirst, rows[high + 1]>>)

\* lines 42-63, for a non-empty rowList_ and a gap the check accepts
getTimeSegments(rows, gap) == segmentLoop(rows, gap, 0, 0, 0, rows[1], <<>>)

\* time-sorted event lists (duplicates allowed) of 1..n events over times
SortedRows(times, n) ==
    {r \in UNION {[1..k -> times] : k \in 1..n} :
        \A k \in 1..(Len(r) - 1) : r[k] <= r[k + 1]}

(***************************************************************************)
(* Values of the variables a routine does not use.                         *)
(***************************************************************************)
IdleMerge == v1 = <<>> /\ v2 = <<>> /\ mergeOut = <<>>
IdleSeg == rowList = <<>> /\ segmentList = <<>>
IdleSpeed ==
    /\ userRows = <<>>
    /\ rowIdx = 1
    /\ lowIdx = 0
    /\ highIdx = 0
    /\ mapID = 1
    /\ jsonFiles = <<>>
    /\ windows = <<>>
IdleUser ==
    /\ cellList = <<>> /\ cellQueue = {} /\ areaMap = <<>> /\ areaID = 1
    /\ areaList = <<>> /\ cellTag = 0 /\ rowAreaID = <<>>

(***************************************************************************)
(* SpecMerge: merge applied to every pair of lists meeting its             *)
(* precondition.                                                           *)
(***************************************************************************)
InitMerge ==
    /\ pc = "merge_call"
    /\ v1 \in IntervalLists
    /\ v2 \in IntervalLists
    /\ mergeOut = <<>>
    /\ interval = 0
    /\ IdleSeg
    /\ IdleUser
    /\ IdleSpeed

MergeReturn ==
    /\ pc = "merge_call"
    /\ ~merge(v1, v2).thrown
    /\ mergeOut' = merge(v1, v2).merged
    /\ pc' = "merge_ret"
    /\ UNCHANGED <<speedVars, v1, v2, interval, segVars, userVars>>

MergeThrow ==
    /\ pc = "merge_call"
    /\ merge(v1, v2).thrown
    /\ pc' = "merge_throw"
    /\ UNCHANGED <<speedVars, mergeVars, interval, segVars, userVars>>

NextMerge == MergeReturn \/ MergeThrow

SpecMerge == InitMerge /\ [][NextMerge]_vars

(***************************************************************************)
(* SpecSeg: getTimeSegments applied to every time-sorted event list.       *)
(***************************************************************************)
InitSeg ==
    /\ pc = "seg_call"
    /\ rowList \in SortedRows(0..MaxTime, MaxEvents)
    /\ interval \in (-1)..MaxGap
    /\ segmentList = <<>>
    /\ IdleMerge
    /\ IdleUser
    /\ IdleSpeed

SegmentReturn ==
    /\ pc = "seg_call"
    /\ ~isWithinIntervalExits(rowList, 0, 0, interval)
    /\ segmentList' = getTimeSegments(rowList, interval)
    /\ pc' = "seg_ret"
    /\ UNCHANGED <<speedVars, rowList, interval, mergeVars, userVars>>

SegmentExit ==
    /\ pc = "seg_call"
    /\ isWithinIntervalExits(rowList, 0, 0, interval)
    /\ pc' = "exit"
    /\ UNCHANGED <<speedVars, segVars, interval, mergeVars, userVars>>

NextSeg == SegmentReturn \/ SegmentExit

SpecSeg == InitSeg /\ [][NextSeg]_vars

(***************************************************************************)
(* user.h                                                                  *)
(***************************************************************************)
\* lines 114 and 118: one hour, in seconds
StayThreshold == 3600

\* lines 21-25: the ordering of the priority queue
compareBySecondValueReversed(a, b) == a[2] > b[2]

compareBySecondValue(a, b) == a[2] < b[2]

\* std::priority_queue::top: an element no other element is ordered after;
\* which of several such elements is on top is left to the heap
isTop(q, queue) ==
    q \in queue /\ \A r \in queue : ~compareBySecondValue(q, r)

\* line 114: 3600 / interval.  Only evaluated for interval >= 0; for
\* interval = 0 the division is undefined: a build either traps (action
\* DivideByZeroTrap) or yields 0 without trapping, the value used here.
minConnections(gap) == IF gap = 0 THEN 0 ELSE StayThreshold \div gap

\* line 114
tooFewConnections(num, gap) == num < minConnections(gap)

\* line 116 (no overflow of the int within the bounds of the model)
stayTimeOf(currSegList, gap) == Len(currSegList) * gap

\* line 118
qualifiesInclusive(stayTime) == stayTime >= StayThreshold

qualifies(stayTime) == stayTime > StayThreshold

\* lines 121-123: some segments were coalesced by the merge
acceptsMerge(currSegList, area) ==
    Len(merge(currSegList, area).merged) < Len(currSegList) + Len(area)

\* line 125: areaID = index + 1; i is the C++ index of the area
mergedAreaIDOffByOne(i) == i

mergedAreaID(i) == i + 1

\* lines 120-129: the C++ indices of the areas that would accept the merge
acceptingAreas(currSegList, areas) ==
    {i \in 0..(Len(areas) - 1) : acceptsMerge(currSegList, areas[i + 1])}

lastFit(currSegList, areas) ==
    CHOOSE i \in acceptingAreas(currSegList, areas) :
        \A j \in acceptingAreas(currSegList, areas) : i >= j

firstFit(currSegList, areas) ==
    CHOOSE i \in acceptingAreas(currSegList, areas) :
        \A j \in acceptingAreas(currSegList, areas) : i <= j

\* areaMap[tag] = id
mapPut(map, tag, id) ==
    [t \in (DOMAIN map) \cup {tag} |-> IF t = tag THEN id ELSE map[t]]

(***************************************************************************)
(* Spec: User::findResidentialAreaByTopKCells on every log within the      *)
(* bounds.  A cell's tag is its index in cellList_.                        *)
(***************************************************************************)
Tick == StayThreshold \div 2 + 1

TickTimes == {k * Tick : k \in 0..MaxTick}

GapThresholds ==
    {-1, 0, StayThreshold \div 2, StayThreshold, StayThreshold + 1}

\* Cell tags are opaque and the queue's choice between equal counts is free,
\* so every permutation of the cells of a log behaves alike: the logs are
\* enumerated with their cells in the order of rowsCode.
RECURSIVE rowsCode(_)
rowsCode(r) ==
    IF r = <<>> THEN 0
    ELSE (r[1] \div Tick + 1) + (MaxTick + 2) * rowsCode(Tail(r))

\* the time-sorted rows one cell can hold
CellRows == SortedRows(TickTimes, MaxCellEvents)

\* the number of rows of the log
RECURSIVE numRows(_)
numRows(cl) == IF cl = <<>> THEN 0 ELSE Len(cl[1]) + numRows(Tail(cl))

\* the logs of exactly n cells
RECURSIVE CellListsOf(_)
CellListsOf(n) ==
    IF n = 0 THEN {<<>>}
    ELSE {cl \in {Append(p[1], p[2]) : p \in CellListsOf(n - 1) \X CellRows} :
             /\ numRows(cl) <= MaxRows
             /\ n > 1 => rowsCode(cl[n - 1]) <= rowsCode(cl[n])}

CellLists == UNION {CellListsOf(n) : n \in 1..MaxCells}

\* the state after User::User (readFile, lines 58-90) and the
\* initialisation of the locals of findResidentialAreaByTopKCells
\* (lines 102-105)
Init ==
    /\ pc = "loop"
    /\ cellList \in CellLists
    /\ interval \in GapThresholds
    /\ cellQueue = {<<c, Len(cellList[c])>> : c \in DOMAIN cellList}
    /\ areaMap = <<>>
    /\ areaID = 1
    /\ areaList = <<>>
    /\ cellTag = 0
    /\ rowAreaID = [c \in DOMAIN cellList |-> 0]
    /\ IdleMerge
    /\ IdleSeg
    /\ IdleSpeed

currSegListOf(q) == getTimeSegments(cellList[q[1]], interval)

\* line 111 -> cell.h line 35: a negative interval ends the process
ExitInvalidInterval ==
    /\ pc = "loop"
    /\ cellQueue # {}
    /\ \E q \in cellQueue :
          /\ isTop(q, cellQueue)
          /\ isWithinIntervalExits(cellList[q[1]], 0, 0, interval)
          /\ cellTag' = q[1]
    /\ pc' = "exit"
    /\ UNCHANGED <<speedVars, cellList, cellQueue, areaMap, areaID, areaList, rowAreaID,
                   interval, mergeVars, segVars>>

\* line 114 with interval = 0: the division traps
DivideByZeroTrap ==
    /\ pc = "loop"
    /\ cellQueue # {}
    /\ interval = 0
    /\ \E q \in cellQueue : isTop(q, cellQueue) /\ cellTag' = q[1]
    /\ pc' = "exit"
    /\ UNCHANGED <<speedVars, cellList, cellQueue, areaMap, areaID, areaList, rowAreaID,
                   interval, mergeVars, segVars>>

\* line 114: break, the cell stays in the queue
BreakTooFewConnections ==
    /\ pc = "loop"
    /\ cellQueue # {}
    /\ interval >= 0
    /\ \E q \in cellQueue :
          /\ isTop(q, cellQueue)
          /\ tooFewConnections(q[2], interval)
          /\ cellTag' = q[1]
    /\ pc' = "output"
    /\ UNCHANGED <<speedVars, cellList, cellQueue, areaMap, areaID, areaList, rowAreaID,
                   interval, mergeVars, segVars>>

\* lines 116-118, 136: the cell does not qualify and is popped
SkipCell ==
    /\ pc = "loop"
    /\ cellQueue # {}
    /\ interval >= 0
    /\ \E q \in cellQueue :
          /\ isTop(q, cellQueue)
          /\ ~tooFewConnections(q[2], interval)
          /\ ~qualifies(stayTimeOf(currSegListOf(q), interval))
          /\ cellTag' = q[1]
          /\ cellQueue' = cellQueue \ {q}
    /\ UNCHANGED <<speedVars, pc, cellList, areaMap, areaID, areaList, rowAreaID,
                   interval, mergeVars, segVars>>

\* lines 119-129, 136: the first area whose merge coalesces takes the cell
MergeIntoArea ==
    /\ pc = "loop"
    /\ cellQueue # {}
    /\ interval >= 0
    /\ \E q \in cellQueue :
          /\ isTop(q, cellQueue)
          /\ ~tooFewConnections(q[2], interval)
          /\ qualifies(stayTimeOf(currSegListOf(q), interval))
          /\ acceptingAreas(currSegListOf(q), areaList) # {}
          /\ LET i == firstFit(currSegListOf(q), areaList)
             IN  /\ areaList' = [areaList EXCEPT ![i + 1] =
                                   merge(currSegListOf(q), areaList[i + 1]).merged]
                 /\ areaMap' = mapPut(areaMap, q[1], mergedAreaID(i))
          /\ cellTag' = q[1]
          /\ cellQueue' = cellQueue \ {q}
    /\ UNCHANGED <<speedVars, pc, cellList, areaID, rowAreaID, interval, mergeVars, segVars>>

\* lines 130-134, 136: no area accepted the cell, it founds a new area
CreateArea ==
    /\ pc = "loop"
    /\ cellQueue # {}
    /\ interval >= 0
    /\ \E q \in cellQueue :
          /\ isTop(q, cellQueue)
          /\ ~tooFewConnections(q[2], interval)
          /\ qualifies(stayTimeOf(currSegListOf(q), interval))
          /\ acceptingAreas(currSegListOf(q), areaList) = {}
          /\ areaMap' = mapPut(areaMap, q[1], areaID)
          /\ areaID' = areaID + 1
          /\ areaList' = Append(areaList, currSegListOf(q))
          /\ cellTag' = q[1]
          /\ cellQueue' = cellQueue \ {q}
    /\ UNCHANGED <<speedVars, pc, cellList, rowAreaID, interval, mergeVars, segVars>>

\* line 106: the queue is empty, the loop ends
LoopEnd ==
    /\ pc = "loop"
    /\ cellQueue = {}
    /\ pc' = "output"
    /\ UNCHANGED <<speedVars, userVars, interval, mergeVars, segVars>>

\* lines 139-147: the area id of every row whose tag is in areaMap
WriteAreaIDs ==
    /\ pc = "output"
    /\ rowAreaID' = [c \in DOMAIN cellList |->
                        IF c \in DOMAIN areaMap THEN areaMap[c] ELSE rowAreaID[c]]
    /\ pc' = "done"
    /\ UNCHANGED <<speedVars, cellList, cellQueue, areaMap, areaID, areaList, cellTag,
                   interval, mergeVars, segVars>>

Next ==
    \/ ExitInvalidInterval
    \/ DivideByZeroTrap
    \/ BreakTooFewConnections
    \/ SkipCell
    \/ MergeIntoArea
    \/ CreateArea
    \/ LoopEnd
    \/ WriteAreaIDs

Spec == Init /\ [][Next]_vars

(***************************************************************************)
(* SpecWide: the same routine with a valid gap on the logs of one more     *)
(* cell, one more row and one more tick than Spec takes.  (rowsCode may    *)
(* give two of these row lists the same code; both orders are then         *)
(* listed.)                                                                *)
(***************************************************************************)
WideCellRows ==
    SortedRows({k * Tick : k \in 0..(MaxTick + 1)}, MaxCellEvents)

RECURSIVE WideCellListsOf(_)
WideCellListsOf(n) ==
    IF n = 0 THEN {<<>>}
    ELSE {cl \in {Append(p[1], p[2]) :
                     p \in WideCellListsOf(n - 1) \X WideCellRows} :
             /\ numRows(cl) <= MaxRows + 1
             /\ n > 1 => rowsCode(cl[n - 1]) <= rowsCode(cl[n])}

WideGapThresholds == {StayThreshold \div 2, StayThreshold + 1}

InitWide ==
    /\ pc = "loop"
    /\ cellList \in UNION {WideCellListsOf(n) : n \in 1..(MaxCells + 1)}
    /\ interval \in WideGapThresholds
    /\ cellQueue = {<<c, Len(cellList[c])>> : c \in DOMAIN cellList}
    /\ areaMap = <<>>
    /\ areaID = 1
    /\ areaList = <<>>
    /\ cellTag = 0
    /\ rowAreaID = [c \in DOMAIN cellList |-> 0]
    /\ IdleMerge
    /\ IdleSeg
    /\ IdleSpeed

NextWide ==
    \/ BreakTooFewConnections
    \/ SkipCell
    \/ MergeIntoArea
    \/ CreateArea
    \/ LoopEnd
    \/ WriteAreaIDs

SpecWide == InitWide /\ [][NextWide]_vars

\* merge is only ever called on non-empty lists here and never throws
MergeNeverThrowsInDiscovery ==
    \A q \in cellQueue : \A i \in 1..Len(areaList) :
        interval >= 0 => ~merge(currSegListOf(q), areaList[i]).thrown

(***************************************************************************)
(* User::findResidentialAreaBySpeed (src/user.h).                          *)
(*                                                                         *)
(* A row of the log is <<time, position>>.  The positions are two places   *)
(* PosStep metres apart; distances are in metres and the doubles of the    *)
(* code become integers: movingSpeed is 0.0125 km/s = 125 * 10^-4 km/s,    *)
(* upscalingFactor is 1.1 = 11 / 10, so that for a distance of d metres    *)
(*   d / 1000 * 1.1 / t > 0.0125   <=>   d * 11 > 125 * t      (t > 0).    *)
(* The grid keeps every speed away from the threshold, where the rounding  *)
(* of the doubles would decide.                                            *)
(***************************************************************************)
movingSpeed == 125      \* src/user.h:162, in 10^-4 km per second
upscalingFactor == 11   \* src/user.h:163, in tenths
minInterval == 600      \* src/user.h:164, seconds

MaxSpeedRows == 4       \* longest log given to findResidentialAreaBySpeed
MaxSpeedTick == 4       \* its timestamps are the ticks 0..MaxSpeedTick

\* two ticks last exactly minInterval
SpeedTick == minInterval \div 2
\* a little more than the distance covered at movingSpeed within one tick:
\* one step in one tick is moving, one step in two ticks is not
PosStep == (movingSpeed * SpeedTick) \div upscalingFactor + 100

\* the places of the log
Positions == {0, 1}

\* great-circle distance of two positions, here in metres
distanceEarth(p, q) == (IF p >= q THEN p - q ELSE q - p) * PosStep

\* 0-based accessors of rowList_
timeOf(rows, k) == rows[k + 1][1]
posOf(rows, k) == rows[k + 1][2]

\* lines 171-174 and 175
currShiftOf(rows, k) == distanceEarth(posOf(rows, k - 1), posOf(rows, k))
timeDiffOf(rows, k) == timeOf(rows, k) - timeOf(rows, k - 1)

\* line 180: the pair is skipped
noSignal(rows, k) == currShiftOf(rows, k) = 0 \/ timeDiffOf(rows, k) = 0

\* lines 182-183: speed > movingSpeed, for a pair that is not skipped
isMoving(rows, k) ==
    currShiftOf(rows, k) * upscalingFactor > movingSpeed * timeDiffOf(rows, k)

\* lines 184 and 197: stayInterval for the window low .. hi - 1
stayIntervalOf(rows, lo, hi) == timeOf(rows, hi - 1) - timeOf(rows, lo)

longEnoughInclusive(stayInterval) == stayInterval >= minInterval
\* lines 185 and 198
longEnough(stayInterval) == stayInterval > minInterval

\* the logs: non-empty and sorted by time, as readFile leaves rowList_
\* (line 89); on an empty rowList_ line 197 reads rowList_[0] of an empty
\* vector, which the model leaves out
RECURSIVE SpeedLogsFrom(_, _)
SpeedLogsFrom(n, first) ==
    IF n = 0
    THEN {<<>>}
    ELSE UNION {{<<<<t * SpeedTick, p>>>> \o rest :
                     rest \in SpeedLogsFrom(n - 1, t), p \in Positions} :
                    t \in first..MaxSpeedTick}
SpeedLogs == UNION {SpeedLogsFrom(n, 0) : n \in 1..MaxSpeedRows}

InitSpeed ==
    /\ pc = "speed_loop"
    /\ userRows \in SpeedLogs
    /\ rowIdx = 1
    /\ lowIdx = 0
    /\ highIdx = 0
    /\ mapID = 1
    /\ jsonFiles = <<>>
    /\ windows = <<>>
    /\ interval = 0
    /\ IdleMerge
    /\ IdleSeg
    /\ IdleUser

\* lines 169-180: a pair without signal, the iteration ends at continue
SpeedContinue ==
    /\ pc = "speed_loop"
    /\ rowIdx < Len(userRows)
    /\ noSignal(userRows, rowIdx)
    /\ highIdx' = rowIdx
    /\ rowIdx' = rowIdx + 1
    /\ UNCHANGED <<pc, userRows, lowIdx, mapID, jsonFiles, windows,
                   interval, mergeVars, segVars, userVars>>

\* lines 169-183: speed <= movingSpeed, the window extends
SpeedStationary ==
    /\ pc = "speed_loop"
    /\ rowIdx < Len(userRows)
    /\ ~noSignal(userRows, rowIdx)
    /\ ~isMoving(userRows, rowIdx)
    /\ highIdx' = rowIdx
    /\ rowIdx' = rowIdx + 1
    /\ UNCHANGED <<pc, userRows, lowIdx, mapID, jsonFiles, windows,
                   interval, mergeVars, segVars, userVars>>

\* lines 169-191: speed > movingSpeed, the window low .. i - 1 is closed
\* and written to a file
SpeedCutEmit ==
    /\ pc = "speed_loop"
    /\ rowIdx < Len(userRows)
    /\ ~noSignal(userRows, rowIdx)
    /\ isMoving(userRows, rowIdx)
    /\ longEnough(stayIntervalOf(userRows, lowIdx, rowIdx))
    /\ highIdx' = rowIdx
    /\ mapID' = mapID + 1
    /\ jsonFiles' = Append(jsonFiles, <<lowIdx, rowIdx>>)
    /\ windows' = Append(windows, <<lowIdx, rowIdx - 1>>)
    /\ lowIdx' = rowIdx
    /\ rowIdx' = rowIdx + 1
    /\ UNCHANGED <<pc, userRows, interval, mergeVars, segVars, userVars>>

\* lines 169-191: speed > movingSpeed, the window low .. i - 1 is closed
\* and dropped
SpeedCutDrop ==
    /\ pc = "speed_loop"
    /\ rowIdx < Len(userRows)
    /\ ~noSignal(userRows, rowIdx)
    /\ isMoving(userRows, rowIdx)
    /\ ~longEnough(stayIntervalOf(userRows, lowIdx, rowIdx))
    /\ highIdx' = rowIdx
    /\ windows' = Append(windows, <<lowIdx, rowIdx - 1>>)
    /\ lowIdx' = rowIdx
    /\ rowIdx' = rowIdx + 1
    /\ UNCHANGED <<pc, userRows, mapID, jsonFiles,
                   interval, mergeVars, segVars, userVars>>

\* lines 196-203: the last window is written to a file
SpeedLastEmit ==
    /\ pc = "speed_loop"
    /\ rowIdx >= Len(userRows)
    /\ highIdx' = highIdx + 1
    /\ longEnough(stayIntervalOf(userRows, lowIdx, highIdx + 1))
    /\ mapID' = mapID + 1
    /\ jsonFiles' = Append(jsonFiles, <<lowIdx, highIdx + 1>>)
    /\ windows' = Append(windows, <<lowIdx, highIdx>>)
    /\ pc' = "speed_done"
    /\ UNCHANGED <<userRows, rowIdx, lowIdx,
                   interval, mergeVars, segVars, userVars>>

\* lines 196-198: the last window is dropped
SpeedLastDrop ==
    /\ pc = "speed_loop"
    /\ rowIdx >= Len(userRows)
    /\ highIdx' = highIdx + 1
    /\ ~longEnough(stayIntervalOf(userRows, lowIdx, highIdx + 1))
    /\ windows' = Append(windows, <<lowIdx, highIdx>>)
    /\ pc' = "speed_done"
    /\ UNCHANGED <<userRows, rowIdx, lowIdx, mapID, jsonFiles,
                   interval, mergeVars, segVars, userVars>>

NextSpeed ==
    \/ SpeedContinue
    \/ SpeedStationary
    \/ SpeedCutEmit
    \/ SpeedCutDrop
    \/ SpeedLastEmit
    \/ SpeedLastDrop

SpecSpeed == InitSpeed /\ [][NextSpeed]_vars

(***************************************************************************)
(* Properties of merge (SpecMerge).                                        *)
(***************************************************************************)
\* C1: for sorted, non-touching inputs the list merge returns is sorted by
\* start and no two consecutive intervals of it overlap or touch
\* (p.end < q.start).
C1_MergeOutputSortedDisjoint ==
    pc = "merge_ret" => SortedDisjoint(mergeOut)

\* C2: merge is commutative: merge(v1, v2) and merge(v2, v1) return the same
\* list, also when the first intervals start at the same time.
C2_MergeCommutative ==
    pc = "merge_ret" => merge(v2, v1) = [thrown |-> FALSE, merged |-> mergeOut]

\* C3: the empty list is a right identity of merge: merge(x, []) completes
\* normally and returns exactly x, for every x, the empty list included.
C3_MergeRightIdentity ==
    (pc \in {"merge_ret", "merge_throw"} /\ v2 = <<>>)
        => (pc = "merge_ret" /\ mergeOut = v1)

\* C4: two single intervals [s1,e1], [s2,e2] with s1 <= s2 are coalesced
\* into [s1, max(e1,e2)] exactly when s2 <= e1 and stay two separate
\* intervals when e1 < s2.
C4_CoalesceIffNotStrictlyAfter ==
    (pc = "merge_ret" /\ Len(v1) = 1 /\ Len(v2) = 1) =>
        LET x == IF v1[1][1] <= v2[1][1] THEN v1[1] ELSE v2[1]
            y == IF v1[1][1] <= v2[1][1] THEN v2[1] ELSE v1[1]
        IN  IF y[1] <= x[2]
            THEN mergeOut = << <<x[1], Max(x[2], y[2])>> >>
            ELSE mergeOut = <<x, y>>

\* the boundary cases: touching intervals coalesce, a gap of one second
\* keeps them apart
C4_Witness ==
    /\ pc = "merge_ret"
    /\ \/ v1 = << <<1, 2>> >> /\ v2 = << <<2, 3>> >>
             /\ mergeOut = << <<1, 3>> >>
       \/ v1 = << <<1, 1>> >> /\ v2 = << <<2, 3>> >>
             /\ mergeOut = << <<1, 1>>, <<2, 3>> >>

(***************************************************************************)
(* Properties of getTimeSegments (SpecSeg).                                *)
(***************************************************************************)
Covering(segs, t) == {k \in 1..Len(segs) : segs[k][1] <= t /\ t <= segs[k][2]}

\* C5: for a non-empty time-sorted event list and a gap >= 0 the returned
\* intervals are sorted by start, have end >= start, are pairwise disjoint,
\* and every event's timestamp lies in exactly one of them; one event gives
\* one interval with start = end.
C5_SegmentsPartitionEvents ==
    pc = "seg_ret" =>
        /\ SortedDisjoint(segmentList)
        /\ WellFormed(segmentList)
        /\ \A j \in 1..Len(rowList) :
               Cardinality(Covering(segmentList, rowList[j])) = 1
        /\ Len(rowList) = 1 =>
               segmentList = << <<rowList[1], rowList[1]>> >>

\* several intervals from an event list with a repeated timestamp
C5_Witness ==
    /\ pc = "seg_ret"
    /\ Len(segmentList) >= 2
    /\ \E j \in 1..(Len(rowList) - 1) : rowList[j] = rowList[j + 1]

\* C6: maximum-window semantics measured from the interval's first event:
\* every interval has end - start <= gap, each interval after the first
\* starts at the first event later than the previous interval's start by
\* more than gap, and an event within gap of the start of the interval of
\* its predecessor stays in that interval.
C6_MaximumWindow ==
    pc = "seg_ret" =>
        /\ segmentList[1][1] = rowList[1]
        /\ \A k \in 1..Len(segmentList) :
               segmentList[k][2] - segmentList[k][1] <= interval
        /\ \A k \in 2..Len(segmentList) :
               /\ \E j \in 1..Len(rowList) : rowList[j] = segmentList[k][1]
               /\ segmentList[k][1] - segmentList[k - 1][1] > interval
               /\ \A j \in 1..Len(rowList) :
                      rowList[j] - segmentList[k - 1][1] > interval
                          => rowList[j] >= segmentList[k][1]
        /\ \A j \in 2..Len(rowList) : \A k \in 1..Len(segmentList) :
               (/\ segmentList[k][1] <= rowList[j - 1]
                /\ rowList[j - 1] <= segmentList[k][2]
                /\ rowList[j] - segmentList[k][1] <= interval)
                   => rowList[j] <= segmentList[k][2]

\* an event opens a new interval although it is within gap of the event
\* before it, and an event far from its predecessor stays in the window
C6_Witness ==
    /\ pc = "seg_ret"
    /\ interval = 3
    /\ rowList = <<0, 2, 4>>
    /\ segmentList = << <<0, 2>>, <<4, 4>> >>

(***************************************************************************)
(* Properties of findResidentialAreaByTopKCells (Spec).                    *)
(***************************************************************************)
\* C7: at every point of area discovery the interval list stored for each
\* area is sorted by start and no two of its intervals overlap or touch.
C7_AreaListsSortedDisjoint ==
    \A i \in 1..Len(areaList) : SortedDisjoint(areaList[i])

\* C8: the early exit is safe: for a gap > 0, when the loop breaks at a cell
\* with fewer than 3600 / gap events, neither that cell nor any cell still
\* in the queue has (number of dwell intervals) x gap > 3600, so examining
\* them would leave the mapping as it is.
C8_EarlyExitSafe ==
    (pc = "output" /\ cellQueue # {} /\ interval > 0) =>
        \A q \in cellQueue :
            Len(getTimeSegments(cellList[q[1]], interval)) * interval <= 3600

\* the loop broke after an earlier, more active cell had founded an area
C8_Witness ==
    /\ pc = "output"
    /\ cellQueue # {}
    /\ interval > 0
    /\ areaList # <<>>

C10_AreaIdsDenseSequential ==
    /\ [](/\ {areaMap[t] : t \in DOMAIN areaMap} = 1..Len(areaList)
          /\ areaID = Len(areaList) + 1)
    /\ [][/\ \A t \in DOMAIN areaMap :
                 t \in DOMAIN areaMap' /\ areaMap'[t] = areaMap[t]
          /\ Len(areaList') >= Len(areaList)
          /\ Len(areaList') # Len(areaList) =>
                 /\ Len(areaList') = Len(areaList) + 1
                 /\ cellTag' \notin DOMAIN areaMap
                 /\ areaMap'[cellTag'] = Len(areaList')]_vars

\* two areas exist and a third cell was bound to one of them
C10_Witness ==
    /\ Len(areaList) = 2
    /\ Cardinality(DOMAIN areaMap) = 3

\* C11: cells leave the queue in non-increasing order of event count, each
\* at most once: the cell examined in a step is a queued cell whose count
\* (its number of events) is >= the count of every queued cell, hence of
\* every cell popped after it; the queue only ever loses that one cell.
C11_PoppedInNonIncreasingCount ==
    /\ [](\A q \in cellQueue : q[2] = Len(cellList[q[1]]))
    /\ [][/\ cellQueue' \subseteq cellQueue
          /\ (pc = "loop" /\ cellQueue # {}) =>
                \E q \in cellQueue :
                    /\ q[1] = cellTag'
                    /\ \A r \in cellQueue : q[2] >= r[2]
                    /\ cellQueue' \in {cellQueue, cellQueue \ {q}}]_vars

\* three cells of three different counts were all popped, the least
\* active one last
C11_Witness ==
    /\ pc = "loop"
    /\ Len(cellList) = 3
    /\ cellQueue = {}
    /\ {Len(cellList[c]) : c \in 1..3} = {1, 2, 3}
    /\ Len(cellList[cellTag]) = 1

\* two intervals share at least one time point
Touches(x, y) == x[1] <= y[2] /\ y[1] <= x[2]

\* the areas (1-based) whose merge with segs has fewer intervals than the
\* two lists together
AreasShrinking(segs, areas) ==
    {i \in 1..Len(areas) :
        Len(merge(segs, areas[i]).merged) < Len(segs) + Len(areas[i])}

\* C14: first-fit with a one-area frame: a qualifying cell is bound to the
\* lowest-numbered area whose merge with the cell's intervals has fewer
\* intervals than the two inputs together; that area's list becomes the
\* merged list, every other area and every earlier binding is unchanged,
\* and later areas are not tried.
C14_FirstFitOneAreaFrame ==
    [][(pc = "loop" /\ cellQueue' # cellQueue /\ cellTag' \in DOMAIN areaMap') =>
          LET segs == getTimeSegments(cellList[cellTag'], interval)
              acc == AreasShrinking(segs, areaList)
          IN  /\ \A t \in DOMAIN areaMap : areaMap'[t] = areaMap[t]
              /\ acc # {} =>
                    \E a \in acc :
                        /\ \A j \in acc : a <= j
                        /\ areaMap'[cellTag'] = a
                        /\ Len(areaList') = Len(areaList)
                        /\ areaList'[a] = merge(segs, areaList[a]).merged
                        /\ \A j \in 1..Len(areaList) :
                               j # a => areaList'[j] = areaList[j]]_vars

\* a cell that both areas would accept was bound to area 1; area 2 is as
\* it was
C14_Witness ==
    /\ pc = "loop"
    /\ Len(areaList) = 2
    /\ Cardinality(DOMAIN areaMap) = 3
    /\ cellTag \in DOMAIN areaMap
    /\ areaMap[cellTag] = 1
    /\ 2 \in AreasShrinking(getTimeSegments(cellList[cellTag], interval), areaList)

\* the time points told apart by the intervals of a log: the multiples of
\* half a tick, h standing for h * Tick / 2
HalfTicks == 0..(2 * MaxTick + 2)

Covered(l, h) == \E k \in 1..Len(l) : 2 * l[k][1] <= h * Tick /\ h * Tick <= 2 * l[k][2]

\* C15: an area's covered time only grows: a time point covered by an area
\* before a step is covered by the same area after it, a cell merged into an
\* area has every time point of its dwell intervals covered by that area,
\* and the number of areas never decreases.
C15_AreaCoverageGrows ==
    [][/\ Len(areaList') >= Len(areaList)
       /\ \A i \in 1..Len(areaList) : \A h \in HalfTicks :
              Covered(areaList[i], h) => Covered(areaList'[i], h)
       /\ (pc = "loop" /\ cellQueue' # cellQueue /\ cellTag' \in DOMAIN areaMap') =>
              \A h \in HalfTicks :
                  Covered(getTimeSegments(cellList[cellTag'], interval), h)
                      => Covered(areaList'[areaMap'[cellTag']], h)]_vars

\* a merge has extended an interval of an area beyond one window
C15_Witness ==
    /\ interval > 0
    /\ Cardinality(DOMAIN areaMap) >= 2
    /\ \E i \in 1..Len(areaList) : \E k \in 1..Len(areaList[i]) :
           areaList[i][k][2] - areaList[i][k][1] > interval

\* some interval of segs shares a time point with some interval of area
TouchesArea(segs, area) ==
    \E k \in 1..Len(segs) : \E m \in 1..Len(area) : Touches(segs[k], area[m])

\* C13: a qualifying cell bound to an existing area has a dwell interval
\* that overlaps or touches an interval of that area as it stood before the
\* merge; a qualifying cell none of whose intervals overlaps or touches an
\* interval of any existing area founds a new area.
C13_BoundOnlyWhenTouching ==
    [][(pc = "loop" /\ cellQueue' # cellQueue /\ cellTag' \in DOMAIN areaMap') =>
          LET segs == getTimeSegments(cellList[cellTag'], interval)
          IN  /\ Len(areaList') = Len(areaList) =>
                     TouchesArea(segs, areaList[areaMap'[cellTag']])
              /\ (\A i \in 1..Len(areaList) : ~TouchesArea(segs, areaList[i])) =>
                     /\ Len(areaList') = Len(areaList) + 1
                     /\ areaMap'[cellTag'] = Len(areaList')]_vars

(***************************************************************************)
(* Properties of findResidentialAreaBySpeed (SpecSpeed).                   *)
(***************************************************************************)
\* the indices at which the log is to be cut: the pair (k - 1, k) has a
\* non-zero distance, a non-zero elapsed time and an implied speed above
\* the threshold
CutIndices(rows) ==
    {k \in 1..(Len(rows) - 1) :
        LET d == distanceEarth(rows[k][2], rows[k + 1][2])
            t == rows[k + 1][1] - rows[k][1]
        IN  d # 0 /\ t # 0 /\ d * upscalingFactor > movingSpeed * t}

\* the windows of a log that last strictly longer than minInterval
DwellWindows(rows, ws) ==
    {k \in 1..Len(ws) : rows[ws[k][2] + 1][1] - rows[ws[k][1] + 1][1] > minInterval}

\* C12: on a time-sorted log findResidentialAreaBySpeed cuts exactly at the
\* indices whose pair has non-zero distance, non-zero elapsed time and an
\* implied speed above the threshold; its windows are disjoint, ascending
\* and cover every index; a window is written to a file iff it lasts
\* strictly longer than minInterval
C12_SpeedWindowsPartitionLog ==
    pc = "speed_done" =>
        LET n == Len(userRows)
            w == Len(windows)
            dwell == DwellWindows(userRows, windows)
        IN  /\ w >= 1
            /\ windows[1][1] = 0
            /\ windows[w][2] = n - 1
            /\ \A k \in 1..w : windows[k][1] <= windows[k][2]
            /\ \A k \in 1..(w - 1) : windows[k + 1][1] = windows[k][2] + 1
            /\ {windows[k][1] : k \in 2..w} = CutIndices(userRows)
            /\ Len(jsonFiles) = Cardinality(dwell)
            /\ mapID = Len(jsonFiles) + 1
            /\ \A k \in dwell :
                   jsonFiles[Cardinality({j \in dwell : j <= k})] =
                       <<windows[k][1], windows[k][2] + 1>>

\* a finished run over a log with a skipped pair at distinct positions, a
\* window that was written and a window that was dropped
C12_Witness ==
    /\ pc = "speed_done"
    /\ Len(windows) >= 2
    /\ jsonFiles # <<>>
    /\ Len(jsonFiles) < Len(windows)
    /\ \E k \in 1..(Len(userRows) - 1) :
           /\ userRows[k][1] = userRows[k + 1][1]
           /\ userRows[k][2] # userRows[k + 1][2]

====
